---- MODULE Spec2Model ----
(***************************************************************************)
(* Request dispatch, credential resolution, response-envelope decoding and *)
(* the streaming session of the openai/anthropic client crate              *)
(* (src/src/lib.rs, src/src/anthrophic_chat.rs).                           *)
(*                                                                         *)
(* Strings whose content the code inspects (base URLs) are sequences of    *)
(* one-character strings, so that ends_with, contains and += are computed  *)
(* as the code computes them.  API keys and routes are opaque strings.     *)
(***************************************************************************)
EXTENDS Integers, Sequences, FiniteSets, TLC

VARIABLES
    env,                  \* the process environment (fixed while running)
    DEFAULT_CREDENTIALS,  \* the process-wide default, or Poisoned
    made,                 \* outcome of the last Credentials::new / from_env
    norm,                 \* a string under repeated parse_base_url
    calls,                \* the outbound calls, by call id
    writes,               \* number of set_key / set_base_url calls so far
    session               \* the streaming session

vars == <<env, DEFAULT_CREDENTIALS, made, norm, calls, writes, session>>

(***************************************************************************)
(* Bounds                                                                  *)
(***************************************************************************)
MaxApply == 2       \* applications of parse_base_url to one string
MaxWrites == 2      \* set_key / set_base_url calls in one run
MaxCalls == 2       \* outbound calls in one run
MaxEvents == 3      \* events delivered to one streaming session

(***************************************************************************)
(* Character strings                                                       *)
(***************************************************************************)
SLASH == <<"/">>
HTTPS == <<"h", "t", "t", "p", "s", ":", "/", "/">>
OPENAI_MARKER == <<"o", "p", "e", "n", "a", "i">>
ANTHROPIC_MARKER == <<"a", "n", "t", "h", "r", "o", "p", "i", "c">>
API_DOT == <<"a", "p", "i", ".">>
DOT_COM == <<".", "c", "o", "m">>
V1 == <<"/", "v", "1">>

\* str::ends_with(ch)
EndsWith(s, ch) == Len(s) > 0 /\ s[Len(s)] = ch

\* str::contains(pattern), a substring search
Contains(s, m) ==
    \E i \in 1..(Len(s) + 1) : i + Len(m) - 1 <= Len(s) /\ SubSeq(s, i, i + Len(m) - 1) = m

\* Hosts: each marker alone, both markers in either order, and near misses
\* (a marker split by a dot, a marker in another letter case, no marker).
Hosts ==
    { <<>>,
      API_DOT \o OPENAI_MARKER \o DOT_COM,
      API_DOT \o ANTHROPIC_MARKER \o DOT_COM,
      OPENAI_MARKER \o <<".">> \o ANTHROPIC_MARKER \o DOT_COM,
      ANTHROPIC_MARKER \o <<"-">> \o OPENAI_MARKER,
      <<"l", "o", "c", "a", "l", "h", "o", "s", "t">>,
      <<"o", "p", "e", "n", ".", "a", "i">>,
      <<"O", "p", "e", "n", "A", "I">> \o DOT_COM }

Schemes == { <<>>, HTTPS }
Paths == { <<>>, SLASH, V1, V1 \o SLASH }

\* The base URLs given to Credentials::new, set_base_url and the environment;
\* the empty string is among them.
UrlPool == { s \o h \o p : s \in Schemes, h \in Hosts, p \in Paths }

Keys == { "sk-a", "sk-b" }

(***************************************************************************)
(* Credentials                                                             *)
(***************************************************************************)
OpenAI == "OpenAI"
Anthropic == "Anthropic"
ApiProvider == { OpenAI, Anthropic }

None == [none |-> TRUE]
Unset == [set |-> FALSE]
Set(value) == [set |-> TRUE, value |-> value]
Poisoned == [poisoned |-> TRUE]

\* fn parse_base_url: append '/' unless the value ends with it
parse_base_url_always_append(value) == value \o SLASH

parse_base_url_identity(value) == value

parse_base_url(value) == IF ~EndsWith(value, "/") THEN value \o SLASH ELSE value

\* fn infer_provider: the result, or "panic"
infer_provider_anthropic_first(base_url) ==
    IF Contains(base_url, ANTHROPIC_MARKER) THEN Anthropic
    ELSE IF Contains(base_url, OPENAI_MARKER) THEN OpenAI
    ELSE "panic"

infer_provider(base_url) ==
    IF Contains(base_url, OPENAI_MARKER) THEN OpenAI
    ELSE IF Contains(base_url, ANTHROPIC_MARKER) THEN Anthropic
    ELSE "panic"

Credentials(provider, api_key, base_url) ==
    [provider |-> provider, api_key |-> api_key, base_url |-> base_url]

\* Credentials::new: the value, or a panic when infer_provider panics
Credentials_new(api_key, base_url_in) ==
    LET base_url == parse_base_url(base_url_in)
        provider == infer_provider(base_url)
    IN  IF provider = "panic" THEN [panic |-> TRUE]
        ELSE Credentials(provider, api_key, base_url)

\* the names of the two environment variables from_env reads
EnvVars(provider) ==
    IF provider = OpenAI THEN <<"OPENAI_KEY", "OPENAI_BASE_URL">>
    ELSE <<"ANTHROPIC_KEY", "ANTHROPIC_URL">>

\* Credentials::from_env: the value, or a panic when a variable is not set
from_env(provider, e) ==
    LET api_key_var == EnvVars(provider)[1]
        base_url_var == EnvVars(provider)[2]
    IN  IF e[api_key_var] = Unset \/ e[base_url_var] = Unset THEN [panic |-> TRUE]
        ELSE Credentials(provider, e[api_key_var].value,
                         parse_base_url(e[base_url_var].value))

IsCredentials(c) == "base_url" \in DOMAIN c

\* static DEFAULT_CREDENTIALS: from_env(OpenAI) behind a lock; a panic of
\* the initialiser poisons the cell and every later access panics too.
DefaultInit(e) ==
    LET c == from_env(OpenAI, e) IN IF IsCredentials(c) THEN c ELSE Poisoned


\* The variables from_env reads, and an environment that sets none of them.
EnvNames == {"OPENAI_KEY", "OPENAI_BASE_URL", "ANTHROPIC_KEY", "ANTHROPIC_URL"}
EmptyEnv == [v \in EnvNames |-> Unset]

(***************************************************************************)
(* State before any operation                                              *)
(***************************************************************************)
NoCall == [pc |-> "idle"]
NoSession == [state |-> "none"]
NotMade == [op |-> "none", out |-> [panic |-> TRUE]]
NotNormalised == [count |-> 0]

InitIn(envs) ==
    /\ env \in envs
    /\ DEFAULT_CREDENTIALS = DefaultInit(env)
    /\ made = NotMade
    /\ norm = NotNormalised
    /\ calls = [c \in 1..MaxCalls |-> NoCall]
    /\ writes = 0
    /\ session = NoSession

(***************************************************************************)
(* Credential construction                                                 *)
(***************************************************************************)
\* Credentials::new(api_key, base_url)
NewCredentials(api_key, base_url) ==
    /\ made' = [op |-> "new", api_key |-> api_key, base_url |-> base_url,
                out |-> Credentials_new(api_key, base_url)]
    /\ UNCHANGED <<env, DEFAULT_CREDENTIALS, norm, calls, writes, session>>

\* Credentials::from_env(provider)
FromEnv(provider) ==
    /\ made' = [op |-> "from_env", provider |-> provider, out |-> from_env(provider, env)]
    /\ UNCHANGED <<env, DEFAULT_CREDENTIALS, norm, calls, writes, session>>

(***************************************************************************)
(* The deprecated global-mutation entry points                             *)
(***************************************************************************)
\* pub fn set_key(value): panics on a poisoned default
set_key(value) ==
    /\ writes < MaxWrites
    /\ writes' = writes + 1
    /\ DEFAULT_CREDENTIALS' =
          IF DEFAULT_CREDENTIALS = Poisoned THEN Poisoned
          ELSE [DEFAULT_CREDENTIALS EXCEPT !.api_key = value]
    /\ UNCHANGED <<env, made, norm, calls, session>>

\* set_base_url that also infers the provider tag again from the new URL
set_base_url_reinfer(value) ==
    /\ writes < MaxWrites
    /\ writes' = writes + 1
    /\ DEFAULT_CREDENTIALS' =
          IF value = <<>> \/ DEFAULT_CREDENTIALS = Poisoned THEN DEFAULT_CREDENTIALS
          ELSE [DEFAULT_CREDENTIALS EXCEPT
                  !.base_url = parse_base_url(value),
                  !.provider = IF infer_provider(value) = "panic" THEN @
                               ELSE infer_provider(value)]
    /\ UNCHANGED <<env, made, norm, calls, session>>

\* pub fn set_base_url(value): returns at once on the empty string
set_base_url(value) ==
    /\ writes < MaxWrites
    /\ writes' = writes + 1
    /\ DEFAULT_CREDENTIALS' =
          IF value = <<>> \/ DEFAULT_CREDENTIALS = Poisoned THEN DEFAULT_CREDENTIALS
          ELSE [DEFAULT_CREDENTIALS EXCEPT !.base_url = parse_base_url(value)]
    /\ UNCHANGED <<env, made, norm, calls, session>>

\* The values the model hands to set_base_url.
WrittenUrls ==
    { <<>>, SLASH, HTTPS \o API_DOT \o ANTHROPIC_MARKER \o DOT_COM,
      <<"l", "o", "c", "a", "l", "h", "o", "s", "t">> \o V1 }

(***************************************************************************)
(* parse_base_url applied again and again to one string                    *)
(***************************************************************************)
Normalise(value) ==
    /\ norm = NotNormalised
    /\ norm' = [count |-> 1, input |-> value, out |-> parse_base_url(value)]
    /\ UNCHANGED <<env, DEFAULT_CREDENTIALS, made, calls, writes, session>>

NormaliseAgain ==
    /\ norm # NotNormalised
    /\ norm.count < MaxApply
    /\ norm' = [norm EXCEPT !.count = @ + 1, !.out = parse_base_url(@)]
    /\ UNCHANGED <<env, DEFAULT_CREDENTIALS, made, calls, writes, session>>

NextNorm ==
    \/ \E value \in UrlPool : Normalise(value)
    \/ NormaliseAgain

SpecNorm == InitIn({EmptyEnv}) /\ [][NextNorm]_vars

\* The environments of the credential specification: everything set, the
\* OpenAI pair missing, the Anthropic pair missing, an empty base URL.
FullEnv ==
    [v \in EnvNames |->
        CASE v = "OPENAI_KEY" -> Set("sk-a")
          [] v = "OPENAI_BASE_URL" -> Set(API_DOT \o OPENAI_MARKER \o DOT_COM \o V1)
          [] v = "ANTHROPIC_KEY" -> Set("sk-b")
          [] OTHER -> Set(HTTPS \o API_DOT \o ANTHROPIC_MARKER \o DOT_COM \o SLASH)]

CredEnvs ==
    { FullEnv,
      [FullEnv EXCEPT !["OPENAI_KEY"] = Unset],
      [FullEnv EXCEPT !["ANTHROPIC_URL"] = Unset],
      [FullEnv EXCEPT !["OPENAI_BASE_URL"] = Set(<<>>), !["ANTHROPIC_URL"] = Set(<<>>)] }

NextCred ==
    \/ \E api_key \in Keys, base_url \in UrlPool : NewCredentials(api_key, base_url)
    \/ \E provider \in ApiProvider : FromEnv(provider)
    \/ \E value \in Keys : set_key(value)
    \/ \E value \in WrittenUrls : set_base_url(value)

SpecCred == InitIn(CredEnvs) /\ [][NextCred]_vars

(***************************************************************************)
(* Response bodies and the untagged envelope ApiResponse<T>                *)
(*                                                                         *)
(* A JSON field is "<absent>", "<null>", "<number>" or a string value.     *)
(* The value under "error" is absent, null, a JSON string or an object     *)
(* with the four fields of OpenAiError.  T stands for the success type of  *)
(* the call: payload says whether the object has T's required fields.      *)
(***************************************************************************)
ABSENT == "<absent>"
NULL == "<null>"
NUMBER == "<number>"
IsString(f) == f \notin {ABSENT, NULL, NUMBER}
IsOptionString(f) == f # NUMBER

ErrorObjects ==
    [shape : {"object"},
     message : {ABSENT, NUMBER, "invalid_api_key"},
     type : {ABSENT, NUMBER, "authentication_error"},
     param : {ABSENT, NULL, NUMBER, "model"},
     code : {ABSENT, NULL, "401"}]

ErrorValues ==
    ErrorObjects \cup
    [shape : {"absent", "null", "string"},
     message : {ABSENT}, type : {ABSENT}, param : {ABSENT}, code : {ABSENT}]

NoError == [shape |-> "absent", message |-> ABSENT, type |-> ABSENT,
            param |-> ABSENT, code |-> ABSENT]

\* kind: "garbage" is not JSON, "scalar" is JSON but no object.
Bodies ==
    [kind : {"garbage", "scalar"}, error : {NoError}, payload : {"other"}]
    \cup [kind : {"object"}, error : ErrorValues, payload : {"T", "other"}]

ErrorEnvelope ==
    [kind |-> "object", payload |-> "other",
     error |-> [shape |-> "object", message |-> "invalid_api_key",
                type |-> "authentication_error", param |-> ABSENT, code |-> ABSENT]]

\* The bodies of the dispatch specification: one of each outcome.
CoreBodies ==
    { ErrorEnvelope,
      [kind |-> "object", error |-> NoError, payload |-> "T"],
      [kind |-> "object", error |-> NoError, payload |-> "other"],
      [kind |-> "garbage", error |-> NoError, payload |-> "other"] }

Option(f) == IF f \in {ABSENT, NULL} THEN "None" ELSE f

\* struct OpenAiError and OpenAiError::new
OpenAiError(message, error_type, param, code) ==
    [message |-> message, error_type |-> error_type, param |-> param, code |-> code]

OpenAiError_new(message, error_type) == OpenAiError(message, error_type, "None", "None")

\* #[derive(Deserialize)] of OpenAiError: message and type are required
\* strings, param and code are optional strings.
IsOpenAiError(v) ==
    /\ v.shape = "object"
    /\ IsString(v.message)
    /\ IsString(v.type)
    /\ IsOptionString(v.param)
    /\ IsOptionString(v.code)

\* variant Err { error: OpenAiError } matches: a map with such an "error"
MatchesErr(body) == body.kind = "object" /\ IsOpenAiError(body.error)

\* variant Ok(T) matches: a map with T's fields; other keys are ignored
MatchesOk(body) == body.kind = "object" /\ body.payload = "T"

NO_VARIANT == "data did not match any variant of untagged enum ApiResponse"
SYNTAX == "expected value at line 1 column 1"

\* An error message is a tuple of its parts: a reqwest::Error prints its own
\* text and then its source's.
ErrVariant(body) ==
    [variant |-> "Err",
     error |-> OpenAiError(<<body.error.message>>, body.error.type,
                           Option(body.error.param), Option(body.error.code))]
OkVariant == [variant |-> "Ok"]
NoVariant(message) == [variant |-> "fail", message |-> message]

\* #[serde(untagged)] enum ApiResponse<T>: the variants are tried in the
\* order of declaration, and the first that matches is the result.
ApiResponse_ok_first(body) ==
    IF body.kind = "garbage" THEN NoVariant(SYNTAX)
    ELSE IF MatchesOk(body) THEN OkVariant
    ELSE IF MatchesErr(body) THEN ErrVariant(body)
    ELSE NoVariant(NO_VARIANT)

ApiResponse(body) ==
    IF body.kind = "garbage" THEN NoVariant(SYNTAX)
    ELSE IF MatchesErr(body) THEN ErrVariant(body)
    ELSE IF MatchesOk(body) THEN OkVariant
    ELSE NoVariant(NO_VARIANT)

\* impl From<reqwest::Error>, impl From<serde_json::Error>
FromReqwestError(message) == OpenAiError_new(message, "reqwest")
FromSerdeJsonError(message) == OpenAiError_new(message, "json_parse_error")

Ok == [kind |-> "Ok"]
Err(error) == [kind |-> "Err", error |-> error]
Panic == [kind |-> "panic"]

\* the match on api_response that ends both *_request_json functions
Unwrap(api_response) ==
    IF api_response.variant = "Ok" THEN Ok ELSE Err(api_response.error)

\* openai_request_json after the exchange: Response::json() parses the
\* body, and its failure is a reqwest::Error that wraps the parser's.
openai_request_json(body) ==
    LET api_response == ApiResponse(body)
    IN  IF api_response.variant = "fail"
        THEN Err(FromReqwestError(<<"error decoding response body", api_response.message>>))
        ELSE Unwrap(api_response)

\* anthropic_request_json after the exchange: serde_json::from_str on the
\* text of the body.
anthropic_request_json(body) ==
    LET api_response == ApiResponse(body)
    IN  IF api_response.variant = "fail"
        THEN Err(FromSerdeJsonError(<<api_response.message>>))
        ELSE Unwrap(api_response)

(***************************************************************************)
(* Outbound calls                                                          *)
(***************************************************************************)
Providers == { "openai", "anthropic" }      \* the two request paths

\* the route of a call: anthropic_post("messages"); an OpenAI route
Route(path) ==
    IF path = "anthropic" THEN <<"m", "e", "s", "s", "a", "g", "e", "s">>
    ELSE <<"m", "o", "d", "e", "l", "s">>

\* credentials_opt.unwrap_or_else(|| DEFAULT_CREDENTIALS.read().unwrap().clone())
resolve_default_only(credentials_opt) == DEFAULT_CREDENTIALS

resolve(credentials_opt) ==
    IF credentials_opt # None THEN credentials_opt ELSE DEFAULT_CREDENTIALS

\* the headers openai_request puts on the request
openai_headers(credentials) ==
    { <<"authorization", <<"Bearer ", credentials.api_key>> >> }

\* the headers anthropic_request puts on the request
anthropic_headers(credentials) ==
    { <<"x-api-key", <<credentials.api_key>> >>,
      <<"anthropic-version", <<"2023-06-01">> >>,
      <<"content-type", <<"application/json">> >> }

\* client.request(method, format!("{}{route}", credentials.base_url)) and
\* the headers of the path
BuildRequest(path, credentials) ==
    [url |-> credentials.base_url \o Route(path),
     headers |-> IF path = "openai" THEN openai_headers(credentials)
                 ELSE anthropic_headers(credentials)]

\* A call enters openai_request / anthropic_request and resolves its
\* credentials; on a poisoned default the read panics.
Resolve(c, path, credentials_opt) ==
    /\ calls[c].pc = "idle"
    /\ \A d \in 1..(c - 1) : calls[d].pc # "idle"
    /\ calls' = [calls EXCEPT ![c] =
          IF resolve(credentials_opt) = Poisoned
          THEN [pc |-> "done", path |-> path, exchanges |-> 0, result |-> Panic]
          ELSE [pc |-> "resolved", path |-> path, credentials_opt |-> credentials_opt,
                credentials |-> resolve(credentials_opt), exchanges |-> 0]]
    /\ UNCHANGED <<env, DEFAULT_CREDENTIALS, made, norm, writes, session>>

\* The request is built from the call's credentials and sent.
Send(c) ==
    /\ calls[c].pc = "resolved"
    /\ calls' = [calls EXCEPT ![c] =
          [pc |-> "sent", path |-> calls[c].path,
           credentials_opt |-> calls[c].credentials_opt,
           credentials |-> calls[c].credentials,
           request |-> BuildRequest(calls[c].path, calls[c].credentials),
           exchanges |-> calls[c].exchanges + 1]]
    /\ UNCHANGED <<env, DEFAULT_CREDENTIALS, made, norm, writes, session>>

\* `.send().await?`: the error is converted and returned
OnTransportError_retry(call, message) ==
    [pc |-> "resolved", path |-> call.path, credentials_opt |-> call.credentials_opt,
     credentials |-> call.credentials, exchanges |-> call.exchanges]

OnTransportError(call, message) ==
    [pc |-> "done", path |-> call.path, exchanges |-> call.exchanges,
     transport |-> message, result |-> Err(FromReqwestError(<<message>>))]

TransportErrors == { "error sending request", "operation timed out" }

TransportError(c, message) ==
    /\ calls[c].pc = "sent"
    /\ calls' = [calls EXCEPT ![c] = OnTransportError(calls[c], message)]
    /\ UNCHANGED <<env, DEFAULT_CREDENTIALS, made, norm, writes, session>>

\* The response arrives and *_request_json decodes its body.
Respond(c, body) ==
    /\ calls[c].pc = "sent"
    /\ calls' = [calls EXCEPT ![c] =
          [pc |-> "done", path |-> calls[c].path, exchanges |-> calls[c].exchanges,
           body |-> body,
           result |-> IF calls[c].path = "openai" THEN openai_request_json(body)
                      ELSE anthropic_request_json(body)]]
    /\ UNCHANGED <<env, DEFAULT_CREDENTIALS, made, norm, writes, session>>

\* The explicit credentials callers pass: one of each tag.
ExplicitCredentials ==
    { Credentials_new("sk-b", HTTPS \o API_DOT \o ANTHROPIC_MARKER \o DOT_COM),
      Credentials_new("sk-a", API_DOT \o OPENAI_MARKER \o DOT_COM \o V1) }

\* The values the dispatch specification hands to set_base_url.
CallWrittenUrls == { <<>>, HTTPS \o API_DOT \o ANTHROPIC_MARKER \o DOT_COM }

CallEnvs == { FullEnv, [FullEnv EXCEPT !["OPENAI_KEY"] = Unset] }

NextCall ==
    \/ \E c \in 1..MaxCalls, path \in Providers,
          credentials_opt \in ExplicitCredentials \cup {None} :
            Resolve(c, path, credentials_opt)
    \/ \E c \in 1..MaxCalls : Send(c)
    \/ \E c \in 1..MaxCalls, message \in TransportErrors : TransportError(c, message)
    \/ \E c \in 1..MaxCalls, body \in CoreBodies : Respond(c, body)
    \/ \E value \in Keys : set_key(value)
    \/ \E value \in CallWrittenUrls : set_base_url(value)

SpecCall == InitIn(CallEnvs) /\ [][NextCall]_vars

NextDecode ==
    \/ \E path \in Providers, credentials_opt \in ExplicitCredentials \cup {None} :
          Resolve(1, path, credentials_opt)
    \/ Send(1)
    \/ \E message \in TransportErrors : TransportError(1, message)
    \/ \E body \in Bodies : Respond(1, body)

SpecDecode == InitIn({FullEnv}) /\ [][NextDecode]_vars

(***************************************************************************)
(* The streaming session                                                   *)
(*                                                                         *)
(* openai_request_stream / anthropic_request_stream open the event source. *)
(* The consumer of the events is the state machine of the design document  *)
(* (Open, Accumulating, Completed, Failed, Cancelled) with its fold.  A    *)
(* text is the sequence of its tokens; concatenating texts concatenates    *)
(* the sequences.                                                          *)
(***************************************************************************)
Indices == { 0, 1 }                      \* content indices of one response

\* the provider's token stream of each content index
Tokens(i) == IF i = 0 THEN <<"Hi", " there", "!">> ELSE <<"O", "K">>

EmptyAccumulator == [i \in Indices |-> <<>>]

\* *_request_stream: resolve, build, and `.eventsource()?`, which fails
\* when the request cannot be cloned
request_stream(path, credentials_opt, clonable) ==
    IF resolve(credentials_opt) = Poisoned THEN [state |-> "Panicked"]
    ELSE IF ~clonable THEN [state |-> "CannotCloneRequestError"]
    ELSE [state |-> "Open",
          request |-> BuildRequest(path, resolve(credentials_opt)),
          acc |-> EmptyAccumulator,
          emitted |-> [i \in Indices |-> 0],
          received |-> <<>>,
          folded |-> 0,
          handed |-> None,
          error |-> None]

OpenStream(path, credentials_opt, clonable) ==
    /\ session = NoSession
    /\ session' = request_stream(path, credentials_opt, clonable)
    /\ UNCHANGED <<env, DEFAULT_CREDENTIALS, made, norm, calls, writes>>

Live == session.state \in {"Open", "Accumulating"}

\* fold of one decoded delta: its text is appended to the block it addresses
Fold_prepend(acc, ev) == [acc EXCEPT ![ev.index] = ev.text \o @]

Fold(acc, ev) == [acc EXCEPT ![ev.index] = @ \o ev.text]

\* a received event: decoded and folded, or the session fails
OnEvent_skip_undecodable(ses, ev) ==
    IF ev.kind = "delta"
    THEN [ses EXCEPT !.state = "Accumulating", !.acc = Fold(@, ev), !.folded = @ + 1,
                     !.received = Append(@, ev)]
    ELSE [ses EXCEPT !.state = "Accumulating", !.received = Append(@, ev)]

OnEvent(ses, ev) ==
    IF ev.kind = "delta"
    THEN [ses EXCEPT !.state = "Accumulating", !.acc = Fold(@, ev), !.folded = @ + 1,
                     !.received = Append(@, ev)]
    ELSE [ses EXCEPT !.state = "Failed", !.error = [kind |-> "decode"],
                     !.received = Append(@, ev)]

Delta(index, text) == [kind |-> "delta", index |-> index, text |-> text]
Undecodable == [kind |-> "undecodable", index |-> 0, text |-> <<>>]
TransportFailure == [kind |-> "transport", index |-> 0, text |-> <<>>]

\* The provider sends the next n tokens of content index i in one event.
ReceiveDelta(i, n) ==
    /\ Live
    /\ Len(session.received) < MaxEvents
    /\ session.emitted[i] + n <= Len(Tokens(i))
    /\ session' = [OnEvent(session,
                           Delta(i, SubSeq(Tokens(i), session.emitted[i] + 1,
                                           session.emitted[i] + n)))
                      EXCEPT !.emitted[i] = @ + n]
    /\ UNCHANGED <<env, DEFAULT_CREDENTIALS, made, norm, calls, writes>>

\* An event arrives that does not decode as a delta.
ReceiveUndecodable ==
    /\ Live
    /\ Len(session.received) < MaxEvents
    /\ session' = OnEvent(session, Undecodable)
    /\ UNCHANGED <<env, DEFAULT_CREDENTIALS, made, norm, calls, writes>>

\* The connection fails while the session waits for the next event.
OnTransportFailure(ses) ==
    [ses EXCEPT !.state = "Failed", !.error = [kind |-> "transport"],
                !.received = Append(@, TransportFailure)]

StreamTransportError ==
    /\ Live
    /\ session' = OnTransportFailure(session)
    /\ UNCHANGED <<env, DEFAULT_CREDENTIALS, made, norm, calls, writes>>

\* the accumulator finalized into the response handed to the caller
Finalize(acc) == [content |-> acc]

\* The provider signals the end of the stream.
EndOfStream ==
    /\ Live
    /\ session' = [session EXCEPT !.state = "Completed", !.handed = Finalize(session.acc)]
    /\ UNCHANGED <<env, DEFAULT_CREDENTIALS, made, norm, calls, writes>>

\* The caller closes the connection; what was accumulated is discarded.
Cancel ==
    /\ Live
    /\ session' = [session EXCEPT !.state = "Cancelled", !.acc = EmptyAccumulator]
    /\ UNCHANGED <<env, DEFAULT_CREDENTIALS, made, norm, calls, writes>>

NextStream ==
    \/ \E path \in Providers, credentials_opt \in ExplicitCredentials \cup {None},
          clonable \in BOOLEAN : OpenStream(path, credentials_opt, clonable)
    \/ \E i \in Indices, n \in 1..2 : ReceiveDelta(i, n)
    \/ ReceiveUndecodable
    \/ StreamTransportError
    \/ EndOfStream
    \/ Cancel

SpecStream == InitIn({FullEnv}) /\ [][NextStream]_vars

(***************************************************************************)
(* Credential resolver: properties                                         *)
(***************************************************************************)
HasOpenAI(u) == Contains(u, OPENAI_MARKER)
HasAnthropic(u) == Contains(u, ANTHROPIC_MARKER)

\* C5 (as amended): Credentials::new gives the OpenAI tag to every base URL
\* that contains "openai", also when it contains "anthropic" as well; the
\* Anthropic tag to every base URL that contains "anthropic" and not
\* "openai"; and panics on every base URL that contains neither.
C5_InferProviderOpenAIFirst ==
    made.op = "new" =>
        /\ HasOpenAI(made.base_url) =>
              IsCredentials(made.out) /\ made.out.provider = OpenAI
        /\ (HasAnthropic(made.base_url) /\ ~HasOpenAI(made.base_url)) =>
              IsCredentials(made.out) /\ made.out.provider = Anthropic
        /\ (~HasOpenAI(made.base_url) /\ ~HasAnthropic(made.base_url)) =>
              ~IsCredentials(made.out)

\* A base URL with both markers, "anthropic" first, was tagged OpenAI.
C5_Witness ==
    /\ made.op = "new"
    /\ made.base_url = HTTPS \o ANTHROPIC_MARKER \o <<"-">> \o OPENAI_MARKER
    /\ IsCredentials(made.out)
    /\ made.out.provider = OpenAI

\* C5 (as stated): every base URL that contains a provider's marker gets that
\* provider, URLs with both markers included; neither marker is a panic.
C5_Original ==
    made.op = "new" =>
        /\ HasOpenAI(made.base_url) =>
              IsCredentials(made.out) /\ made.out.provider = OpenAI
        /\ HasAnthropic(made.base_url) =>
              IsCredentials(made.out) /\ made.out.provider = Anthropic
        /\ (~HasOpenAI(made.base_url) /\ ~HasAnthropic(made.base_url)) =>
              ~IsCredentials(made.out)

\* C6: the base_url of every Credentials value ends with '/': the one
\* Credentials::new or Credentials::from_env returned, and the process-wide
\* default after any sequence of set_key and set_base_url calls.
C6_BaseUrlEndsWithSlash ==
    /\ IsCredentials(made.out) => EndsWith(made.out.base_url, "/")
    /\ DEFAULT_CREDENTIALS # Poisoned => EndsWith(DEFAULT_CREDENTIALS.base_url, "/")

\* set_base_url has replaced the default's URL by one given without a
\* trailing '/', and Credentials::new was given the empty string's neighbour,
\* a URL without a trailing '/'.
C6_Witness ==
    /\ writes = MaxWrites
    /\ DEFAULT_CREDENTIALS # Poisoned
    /\ DEFAULT_CREDENTIALS.base_url = HTTPS \o API_DOT \o ANTHROPIC_MARKER \o DOT_COM \o SLASH
    /\ DEFAULT_CREDENTIALS.base_url # DefaultInit(env).base_url
    /\ made.op = "new"
    /\ ~EndsWith(made.base_url, "/")
    /\ IsCredentials(made.out)

\* C7: parse_base_url is idempotent: applied twice or more to a string, it
\* gives what one application gives.
C7_ParseBaseUrlIdempotent ==
    norm.count >= 2 => norm.out = parse_base_url(norm.input)

\* parse_base_url was applied twice to a string without a trailing '/', and
\* once more to one that had it.
C7_Witness ==
    /\ norm.count = 2
    /\ ~EndsWith(norm.input, "/")
    /\ norm.out = norm.input \o SLASH

(***************************************************************************)
(* Dispatch and decoding: properties                                       *)
(***************************************************************************)
CallIds == 1..MaxCalls
Decoded(c) == calls[c].pc = "done" /\ "body" \in DOMAIN calls[c]
HasRequest(c) == calls[c].pc = "sent"
HasErrorKey(body) == body.kind = "object" /\ body.error.shape # "absent"

\* the three outcomes of decoding, as the caller sees them
IsProviderError(c) ==
    /\ calls[c].result.kind = "Err"
    /\ calls[c].result.error =
          OpenAiError(<<calls[c].body.error.message>>, calls[c].body.error.type,
                      Option(calls[c].body.error.param), Option(calls[c].body.error.code))
IsSuccess(c) == calls[c].result.kind = "Ok"
IsDecodeFailure(c) ==
    /\ calls[c].result.kind = "Err"
    /\ calls[c].result.error.error_type \in {"json_parse_error", "reqwest"}
    /\ calls[c].result.error.param = "None"
    /\ calls[c].result.error.code = "None"

SchemeOf(credentials) ==
    IF credentials.provider = OpenAI
    THEN { <<"authorization", <<"Bearer ", credentials.api_key>> >> }
    ELSE { <<"x-api-key", <<credentials.api_key>> >>,
           <<"anthropic-version", <<"2023-06-01">> >>,
           <<"content-type", <<"application/json">> >> }

\* C2: the auth headers of every request sent are exactly those of the
\* provider tag of the credentials resolved for the call.
C2_HeadersFollowProviderTag ==
    \A c \in CallIds : HasRequest(c) =>
        calls[c].request.headers = SchemeOf(calls[c].credentials)

\* C8: the credentials of a call are fixed when it resolves them: they are
\* the explicit credentials when given, else the value of the default at
\* that step; they and the request built from them do not change afterwards,
\* whatever is written to the default; and only set_key and set_base_url
\* change the default.
C8_SnapshotAtResolve ==
    [][ /\ \A c \in CallIds :
            /\ (calls[c].pc = "idle" /\ calls'[c].pc = "resolved") =>
                  calls'[c].credentials =
                      IF calls'[c].credentials_opt # None
                      THEN calls'[c].credentials_opt ELSE DEFAULT_CREDENTIALS
            /\ (calls[c].pc = "resolved" /\ calls'[c].pc # "resolved") =>
                  /\ calls'[c].pc = "sent"
                  /\ calls'[c].credentials = calls[c].credentials
                  /\ calls'[c].request.url = calls[c].credentials.base_url \o Route(calls[c].path)
                  /\ \E h \in calls'[c].request.headers :
                        h[2][Len(h[2])] = calls[c].credentials.api_key
            /\ (calls[c].pc = "resolved" /\ calls'[c].pc = "resolved") =>
                  calls'[c] = calls[c]
            /\ (calls[c].pc = "sent" /\ calls'[c].pc = "sent") =>
                  calls'[c] = calls[c]
        /\ DEFAULT_CREDENTIALS' # DEFAULT_CREDENTIALS =>
              \/ \E value \in Keys : set_key(value)
              \/ \E value \in WrittenUrls : set_base_url(value)
      ]_vars

\* A call without explicit credentials has sent its request with the key and
\* URL of its snapshot after both fields of the default were overwritten,
\* while another call carries explicit credentials.
C8_Witness ==
    \E c, d \in CallIds :
        /\ calls[c].pc = "sent"
        /\ calls[c].credentials_opt = None
        /\ DEFAULT_CREDENTIALS # Poisoned
        /\ DEFAULT_CREDENTIALS.api_key # calls[c].credentials.api_key
        /\ DEFAULT_CREDENTIALS.base_url # calls[c].credentials.base_url
        /\ calls[c].request.url = calls[c].credentials.base_url \o Route(calls[c].path)
        /\ calls[d].pc = "sent"
        /\ calls[d].credentials_opt # None
        /\ calls[d].credentials # DEFAULT_CREDENTIALS

MatchesNeither(body) == ~MatchesErr(body) /\ ~MatchesOk(body)

\* what the JSON parser says of a body that matches neither shape
ParserMessage(body) == IF body.kind = "garbage" THEN SYNTAX ELSE NO_VARIANT

\* C9: on both paths a body that matches neither shape gives an error of
\* type "json_parse_error" whose message is the parser's message.
C9_ParseFailureKind ==
    \A c \in CallIds : (Decoded(c) /\ MatchesNeither(calls[c].body)) =>
        /\ calls[c].result.kind = "Err"
        /\ calls[c].result.error.error_type = "json_parse_error"
        /\ calls[c].result.error.message = <<ParserMessage(calls[c].body)>>

\* C10: a call performs at most one exchange; when the exchange fails at
\* transport level the call is over with that error, of type "reqwest", and
\* no success value.
C10_NoRetry ==
    \A c \in CallIds :
        /\ calls[c].pc # "idle" => calls[c].exchanges <= 1
        /\ calls[c].pc = "done" /\ "transport" \in DOMAIN calls[c] =>
              /\ calls[c].exchanges = 1
              /\ calls[c].result = Err(OpenAiError(<<calls[c].transport>>, "reqwest", "None", "None"))

\* Every call of the run ended with a transport error after one exchange.
C10_Witness ==
    \A c \in CallIds :
        /\ calls[c].pc = "done"
        /\ "transport" \in DOMAIN calls[c]
        /\ calls[c].exchanges = 1

(***************************************************************************)
(* Streaming session: properties                                           *)
(***************************************************************************)
Started == "received" \in DOMAIN session

\* the texts of the events addressed to index i, concatenated in the order
\* of arrival
RECURSIVE ConcatFor(_, _)
ConcatFor(events, i) ==
    IF events = <<>> THEN <<>>
    ELSE (IF Head(events).kind = "delta" /\ Head(events).index = i
          THEN Head(events).text ELSE <<>>) \o ConcatFor(Tail(events), i)

SawFailure ==
    \E k \in 1..Len(session.received) :
        session.received[k].kind \in {"undecodable", "transport"}

\* C3: once an event fails to decode or the transport fails, the session is
\* Failed and stays so (nothing is consumed after it), an error is surfaced
\* and no finalized response is handed to the caller; no session hands over
\* both a response and an error, and only a Completed one hands over a
\* response.
C3_FailedIsTerminal ==
    Started =>
        /\ SawFailure =>
              /\ session.state = "Failed"
              /\ session.handed = None
              /\ session.error # None
              /\ session.received[Len(session.received)].kind \in {"undecodable", "transport"}
        /\ ~(session.handed # None /\ session.error # None)
        /\ session.handed # None => session.state = "Completed"
        /\ session.state = "Failed" => session.error # None

\* A session failed on an undecodable event after it had accumulated text.
C3_Witness ==
    /\ Started
    /\ session.state = "Failed"
    /\ Len(session.received) = MaxEvents
    /\ session.received[MaxEvents].kind = "undecodable"
    /\ session.acc[0] # <<>>
    /\ session.handed = None

\* C4: in a Completed session the text of each content index is the
\* concatenation, in arrival order, of the texts of the events addressed to
\* it, every received event was folded once, and the text is the tokens the
\* provider emitted for the index, however they were split into events.
C4_FoldConcatenatesByIndex ==
    (Started /\ session.state = "Completed") =>
        /\ \A i \in Indices :
              /\ session.handed.content[i] = ConcatFor(session.received, i)
              /\ session.handed.content[i] = SubSeq(Tokens(i), 1, session.emitted[i])
        /\ session.folded = Len(session.received)

\* "Hi", " there", "!" arrived for index 0 in three events and the
\* finalized text is "Hi there!".
C4_Witness ==
    /\ Started
    /\ session.state = "Completed"
    /\ Len(session.received) = 3
    /\ \A k \in 1..3 : session.received[k] = Delta(0, <<Tokens(0)[k]>>)
    /\ session.handed.content[0] = <<"Hi", " there", "!">>

(***************************************************************************)
(* Global mutation: frame                                                  *)
(***************************************************************************)
\* C11: each global-mutation entry point changes only its own field of the
\* default credentials: set_key(v) sets api_key to v and leaves base_url and
\* the provider tag as they were; set_base_url(v) with v not empty sets
\* base_url to parse_base_url(v) and leaves api_key and the tag as they were
\* (the tag is not inferred again); set_base_url("") changes nothing.
C11_WritesOwnFieldOnly ==
    [][ DEFAULT_CREDENTIALS # Poisoned =>
          /\ \A value \in Keys : set_key(value) =>
                /\ DEFAULT_CREDENTIALS'.api_key = value
                /\ DEFAULT_CREDENTIALS'.base_url = DEFAULT_CREDENTIALS.base_url
                /\ DEFAULT_CREDENTIALS'.provider = DEFAULT_CREDENTIALS.provider
          /\ \A value \in WrittenUrls \ {<<>>} : set_base_url(value) =>
                /\ DEFAULT_CREDENTIALS'.base_url =
                      (IF EndsWith(value, "/") THEN value ELSE value \o SLASH)
                /\ DEFAULT_CREDENTIALS'.api_key = DEFAULT_CREDENTIALS.api_key
                /\ DEFAULT_CREDENTIALS'.provider = DEFAULT_CREDENTIALS.provider
          /\ set_base_url(<<>>) => DEFAULT_CREDENTIALS' = DEFAULT_CREDENTIALS
      ]_vars

\* The default, created with key "sk-a" and an OpenAI URL, has had its key
\* set to "sk-b" and its URL set to an Anthropic one, and is still tagged
\* OpenAI.
C11_Witness ==
    /\ env = FullEnv
    /\ writes = 2
    /\ DEFAULT_CREDENTIALS # Poisoned
    /\ DEFAULT_CREDENTIALS.api_key = "sk-b"
    /\ DEFAULT_CREDENTIALS.base_url = HTTPS \o API_DOT \o ANTHROPIC_MARKER \o DOT_COM \o SLASH
    /\ DEFAULT_CREDENTIALS.provider = OpenAI

====
